---- MODULE Spec2Model ----
(***************************************************************************)
(* Model of the Kanizsa adjective agent: the ExpandableVocabularyManager   *)
(* (vocabulary-manager.ts, kept as src/unnamed/part_002) and the           *)
(* AdjectiveAgent that owns one (agent.ts, kept in src/README.md from line *)
(* 1006).  Strings are TLA+ strings; the JavaScript string and RegExp      *)
(* operations the code uses are computed character by character.  JS       *)
(* objects with string keys are sequences of [k, v] entries in insertion   *)
(* order, which is the order Object.keys/entries/values iterate in.        *)
(* Numbers with one or two decimals are kept as integers: the per-photo    *)
(* confidence in tenths, the per-word confidence in hundredths.            *)
(* Words and contexts range over ordinary words; a category looked up by   *)
(* name may also be a name inherited from Object.prototype (constructor,   *)
(* toString, ...): see InheritedNames.                                     *)
(***************************************************************************)
EXTENDS Naturals, Integers, Sequences, FiniteSets, TLC

(***************************************************************************)
(* Bounds of the model.                                                    *)
(***************************************************************************)
\* Learning, analysis and selection calls made in one behaviour.
MaxOps == 2

\* Constructor, export and import calls and writes into the exported
\* snapshot made in one behaviour.
MaxSnapshotOps == 3

\* Learn events of one word in one behaviour of HistorySpec.
MaxHistory == 4

\* Number of values Math.random() is sampled at: k / RandLevels, k < RandLevels.
RandLevels == 2

(***************************************************************************)
(* JavaScript strings.                                                     *)
(***************************************************************************)
LowerAlpha == "abcdefghijklmnopqrstuvwxyz"
UpperAlpha == "ABCDEFGHIJKLMNOPQRSTUVWXYZ"
Digits == "0123456789"

CharAt(s, i) == SubSeq(s, i, i)

CharsOf(s) == {CharAt(s, i) : i \in 1..Len(s)}

LowerLetters == CharsOf(LowerAlpha)
UpperLetters == CharsOf(UpperAlpha)
\* [a-zA-Z]
IsLetter(c) == c \in LowerLetters \/ c \in UpperLetters
\* \w : [A-Za-z0-9_]
IsWordChar(c) == IsLetter(c) \/ c \in CharsOf(Digits) \/ c = "_"
\* \s (the white space that occurs in the inputs: space, tab, line feed)
IsSpace(c) == c \in {" ", "\t", "\n"}

LowerOf ==
  [c \in UpperLetters |->
     CharAt(LowerAlpha, CHOOSE i \in 1..26 : CharAt(UpperAlpha, i) = c)]

RECURSIVE toLowerCase(_)
toLowerCase(s) ==
  IF s = "" THEN ""
  ELSE LET c == CharAt(s, 1)
       IN (IF c \in UpperLetters THEN LowerOf[c] ELSE c)
            \o toLowerCase(SubSeq(s, 2, Len(s)))

RECURSIVE trimStart(_)
trimStart(s) ==
  IF s # "" /\ IsSpace(CharAt(s, 1)) THEN trimStart(SubSeq(s, 2, Len(s))) ELSE s

RECURSIVE trimEnd(_)
trimEnd(s) ==
  IF s # "" /\ IsSpace(CharAt(s, Len(s)))
  THEN trimEnd(SubSeq(s, 1, Len(s) - 1)) ELSE s

trim(s) == trimEnd(trimStart(s))

\* String.prototype.includes
StrIncludes(s, sub) ==
  \E i \in 1..(Len(s) - Len(sub) + 1) : SubSeq(s, i, i + Len(sub) - 1) = sub

EndsWith(s, suf) ==
  Len(s) >= Len(suf) /\ SubSeq(s, Len(s) - Len(suf) + 1, Len(s)) = suf

(***************************************************************************)
(* Sequences as JavaScript arrays.                                         *)
(***************************************************************************)
\* Array.prototype.includes
Includes(arr, x) == \E i \in 1..Len(arr) : arr[i] = x

\* Array.prototype.slice(0, n), n >= 0
\* A variant of slice that keeps every element.
SliceAll(arr, n) == arr

Slice0(arr, n) == SubSeq(arr, 1, IF n < Len(arr) THEN n ELSE Len(arr))

RECURSIVE Concat(_)
\* [].push(...a) over a list of arrays
Concat(arrs) ==
  IF arrs = << >> THEN << >> ELSE Head(arrs) \o Concat(Tail(arrs))

RECURSIVE SetOrder(_, _)
\* [...new Set(arr)] : a Set keeps each value at its first insertion
SetOrder(arr, acc) ==
  IF arr = << >> THEN acc
  ELSE SetOrder(Tail(arr),
                IF Includes(acc, Head(arr)) THEN acc ELSE Append(acc, Head(arr)))

Min(a, b) == IF a < b THEN a ELSE b

(***************************************************************************)
(* Objects with string keys: entries [k, v] in insertion order.            *)
(***************************************************************************)
HasKey(o, key) == \E i \in 1..Len(o) : o[i].k = key

KeyIndex(o, key) == CHOOSE i \in 1..Len(o) : o[i].k = key

\* o[key], for a key that is present
Get(o, key) == o[KeyIndex(o, key)].v

\* o[key] = val
Put(o, key, val) ==
  IF HasKey(o, key)
  THEN [o EXCEPT ![KeyIndex(o, key)] = [k |-> key, v |-> val]]
  ELSE Append(o, [k |-> key, v |-> val])

\* Object.keys
Keys(o) == [i \in 1..Len(o) |-> o[i].k]

\* Object.values
Values(o) == [i \in 1..Len(o) |-> o[i].v]

(***************************************************************************)
(* Regular expressions of learnFromText, on the text cut into tokens: a    *)
(* token is a maximal run of \w characters, or one other character.  Every *)
(* pattern starts and ends with \b and matches letters only, so a letter   *)
(* group of a match is always a whole token made of letters.               *)
(***************************************************************************)
RECURSIVE WordRunLen(_)
WordRunLen(s) ==
  IF s # "" /\ IsWordChar(CharAt(s, 1))
  THEN 1 + WordRunLen(SubSeq(s, 2, Len(s))) ELSE 0

RECURSIVE Tokenize(_)
Tokenize(s) ==
  IF s = "" THEN << >>
  ELSE LET n == WordRunLen(s)
       IN IF n > 0
          THEN <<[word |-> TRUE, text |-> SubSeq(s, 1, n)]>>
                 \o Tokenize(SubSeq(s, n + 1, Len(s)))
          ELSE <<[word |-> FALSE, text |-> CharAt(s, 1)]>>
                 \o Tokenize(SubSeq(s, 2, Len(s)))

\* [a-zA-Z]+ between two \b
IsLetterToken(t) ==
  t.word /\ \A i \in 1..Len(t.text) : IsLetter(CharAt(t.text, i))

IsSpaceToken(t) == ~t.word /\ IsSpace(t.text)

AdjectiveSuffixes ==
  {"ing", "ed", "ful", "ous", "ive", "al", "ic", "able", "ible", "less",
   "like", "ish", "y"}

ComparativeSuffixes == {"er", "est"}

\* [a-zA-Z]+(?:suf1|suf2|...) matched against a whole token, flag i
HasSuffixShape(w, suffixes) ==
  \E suf \in suffixes : EndsWith(toLowerCase(w), suf) /\ Len(w) > Len(suf)

RECURSIVE SuffixMatches(_, _)
\* text.match(/\b([a-zA-Z]+(?:...))\b/gi) for the token list of text
SuffixMatches(toks, suffixes) ==
  IF toks = << >> THEN << >>
  ELSE (IF IsLetterToken(Head(toks)) /\ HasSuffixShape(Head(toks).text, suffixes)
        THEN <<Head(toks).text>> ELSE << >>)
         \o SuffixMatches(Tail(toks), suffixes)

RECURSIVE CompoundMatches(_)
\* text.match(/\b([a-zA-Z]+-[a-zA-Z]+)\b/gi): the scan resumes after a match
CompoundMatches(toks) ==
  IF Len(toks) < 3 THEN << >>
  ELSE IF IsLetterToken(toks[1]) /\ toks[2].text = "-" /\ IsLetterToken(toks[3])
       THEN <<toks[1].text \o "-" \o toks[3].text>>
              \o CompoundMatches(SubSeq(toks, 4, Len(toks)))
       ELSE CompoundMatches(Tail(toks))

RECURSIVE SpaceRunLen(_)
\* \s+ : the number of white-space tokens at the head of toks
SpaceRunLen(toks) ==
  IF toks # << >> /\ IsSpaceToken(Head(toks))
  THEN 1 + SpaceRunLen(Tail(toks)) ELSE 0

RECURSIVE JoinTokens(_)
JoinTokens(toks) ==
  IF toks = << >> THEN "" ELSE Head(toks).text \o JoinTokens(Tail(toks))

\* The length in tokens of a match of X \s+ (and|or) \s+ Y at the head of
\* toks, 0 when there is none.
PhraseLenAt(toks) ==
  IF toks = << >> \/ ~IsLetterToken(toks[1]) THEN 0
  ELSE LET s1 == SpaceRunLen(Tail(toks))
           j  == 2 + s1
       IN IF s1 = 0 \/ j > Len(toks) THEN 0
          ELSE IF ~(toks[j].word /\ toLowerCase(toks[j].text) \in {"and", "or"})
               THEN 0
               ELSE LET s2 == SpaceRunLen(SubSeq(toks, j + 1, Len(toks)))
                        m  == j + s2 + 1
                    IN IF s2 = 0 \/ m > Len(toks) THEN 0
                       ELSE IF IsLetterToken(toks[m]) THEN m ELSE 0

RECURSIVE PhraseMatches(_)
\* text.match(/\b([a-zA-Z]+)\s+(?:and|or)\s+([a-zA-Z]+)\b/gi): match() with
\* the g flag returns each whole matched substring, "X and Y", not its groups.
PhraseMatches(toks) ==
  IF toks = << >> THEN << >>
  ELSE LET n == PhraseLenAt(toks)
       IN IF n > 0
          THEN <<JoinTokens(SubSeq(toks, 1, n))>>
                 \o PhraseMatches(SubSeq(toks, n + 1, Len(toks)))
          ELSE PhraseMatches(Tail(toks))

\* adjectivePatterns.map(pattern => text.match(pattern) || []), in order
adjectivePatterns(text) ==
  LET toks == Tokenize(text)
  IN <<SuffixMatches(toks, AdjectiveSuffixes),
       SuffixMatches(toks, ComparativeSuffixes),
       CompoundMatches(toks),
       PhraseMatches(toks)>>

(***************************************************************************)
(* Candidate filter and category classifier.                               *)
(***************************************************************************)
FunctionWords ==
  {"the", "a", "an", "and", "or", "but", "in", "on", "at", "to", "for", "of",
   "with", "by", "is", "are", "was", "were", "be", "been", "being", "have",
   "has", "had", "do", "does", "did", "will", "would", "could", "should",
   "may", "might", "can", "this", "that", "these", "those"}

isValidAdjective(word) ==
  /\ Len(word) > 2
  /\ word \notin FunctionWords
  /\ \A i \in 1..Len(word) : IsLetter(CharAt(word, i)) \/ CharAt(word, i) = "-"

GenericWords ==
  {"good", "bad", "big", "small", "new", "old", "high", "low", "long",
   "short", "right", "left", "up", "down", "in", "out", "on", "off", "over",
   "under"}

\* A test that takes no word for a generic one.
NeverCommon(word) == FALSE

isCommonWord(word) == word \in GenericWords

detectCategory(adjective, context) ==
  LET word == toLowerCase(adjective)
  IN IF word \in {"happy", "sad", "angry", "excited", "calm", "nervous",
                  "relaxed", "tense"} THEN "mood"
     ELSE IF word \in {"bright", "dark", "colorful", "dull", "shiny", "matte",
                       "clear", "blurry"} THEN "visual"
     ELSE IF word \in {"old", "new", "ancient", "modern", "temporary",
                       "permanent", "quick", "slow"} THEN "temporal"
     ELSE IF word \in {"large", "small", "wide", "narrow", "deep", "shallow",
                       "near", "far"} THEN "spatial"
     ELSE IF word \in {"loving", "hateful", "caring", "cold", "warm",
                       "passionate", "indifferent"} THEN "emotional"
     ELSE IF context = "title" \/ context = "description" THEN "descriptive"
     ELSE IF context = "tag" THEN "categorized"
     ELSE "descriptive"

(***************************************************************************)
(* The vocabulary object (types.ts, VocabularyManager) and the value held  *)
(* in this.vocabulary.  shape is "object" for an object with the five      *)
(* fields, "null" for null and "empty" for {} (importVocabulary stores     *)
(* whatever JSON gives back).  customCategories is a Set only until it     *)
(* goes through JSON, which writes a Set as {} and reads it back as a      *)
(* plain object without add().  lastUsed (a wall-clock string that nothing *)
(* reads) is not kept.                                                     *)
(***************************************************************************)
SeedCategories ==
  <<[k |-> "mood",
     v |-> <<"serene", "vibrant", "melancholic", "energetic", "peaceful",
             "dramatic", "whimsical", "mysterious">>],
    [k |-> "visual",
     v |-> <<"luminous", "shadowy", "colorful", "monochromatic", "textured",
             "smooth", "geometric", "organic">>],
    [k |-> "temporal",
     v |-> <<"timeless", "nostalgic", "modern", "vintage", "ephemeral",
             "eternal", "fleeting", "enduring">>],
    [k |-> "spatial",
     v |-> <<"expansive", "intimate", "vast", "confined", "open", "layered",
             "minimal", "dense">>],
    [k |-> "emotional",
     v |-> <<"inspiring", "contemplative", "joyful", "somber", "hopeful",
             "introspective", "uplifting", "profound">>]>>

\* new ExpandableVocabularyManager()
NewVocabulary ==
  [shape |-> "object",
   categories |-> SeedCategories,
   learningData |-> << >>,
   customCategories |-> [isSet |-> TRUE, names |-> {}],
   adjectiveFrequency |-> << >>,
   contextPatterns |-> << >>]

NullVocabulary ==
  [shape |-> "null",
   categories |-> << >>,
   learningData |-> << >>,
   customCategories |-> [isSet |-> FALSE, names |-> {}],
   adjectiveFrequency |-> << >>,
   contextPatterns |-> << >>]

EmptyObject == [NullVocabulary EXCEPT !.shape = "empty"]

\* Reading a field of null, or a key of an undefined field, is a TypeError.
IsUsable(voc) == voc.shape = "object"

\* The outcome of a call: the vocabulary it leaves, whether it threw, and
\* what it returned (<< >> when it threw or returns nothing).
Ok(voc, ret) == [voc |-> voc, err |-> FALSE, ret |-> ret]
Threw(voc) == [voc |-> voc, err |-> TRUE, ret |-> << >>]

\* this.vocabulary.adjectiveFrequency[word] || 0
FrequencyOf(voc, word) ==
  IF HasKey(voc.adjectiveFrequency, word)
  THEN Get(voc.adjectiveFrequency, word) ELSE 0

\* A confidence that falls with every further context the word was seen in.
ConfidenceFalling(voc, adjective, context) ==
  LET contexts == SelectSeq(Values(voc.contextPatterns),
                            LAMBDA adjectives : Includes(adjectives, adjective))
  IN 50 - Len(contexts) * 10 + Min(FrequencyOf(voc, adjective) * 5, 30)

\* Per-word confidence in hundredths, from the vocabulary as it is when the
\* learning record is built: before the frequency and the context pattern of
\* the current call are written.
calculateWordConfidence(voc, adjective, context) ==
  LET contexts == SelectSeq(Values(voc.contextPatterns),
                            LAMBDA adjectives : Includes(adjectives, adjective))
      frequency == FrequencyOf(voc, adjective)
      c1 == 50 + Len(contexts) * 10
      c2 == c1 + Min(frequency * 5, 30)
      c3 == IF context = "title" \/ context = "description" THEN c2 + 10 ELSE c2
  IN Min(c3, 100)

\* Lines 92-96: the category is created, then customCategories.add(category)
\* is called, which throws when customCategories is no longer a Set.
InitCategory(voc, category) ==
  IF HasKey(voc.categories, category) THEN Ok(voc, << >>)
  ELSE LET v1 == [voc EXCEPT !.categories = Put(@, category, << >>)]
       IN IF ~voc.customCategories.isSet THEN Threw(v1)
          ELSE Ok([v1 EXCEPT !.customCategories.names = @ \cup {category}],
                  << >>)

\* Lines 98-101: the word joins the list of its category once.
PushAdjective(voc, normalizedAdjective, category) ==
  IF Includes(Get(voc.categories, category), normalizedAdjective) THEN voc
  ELSE [voc EXCEPT !.categories =
          Put(@, category,
              Append(Get(voc.categories, category), normalizedAdjective))]

\* A learning record that takes the count as it was before the call.
RecordOldCount(voc, normalizedAdjective, category, context) ==
  [voc EXCEPT !.learningData =
     Put(@, normalizedAdjective,
         [adjective |-> normalizedAdjective,
          category |-> category,
          context |-> context,
          frequency |-> FrequencyOf(voc, normalizedAdjective),
          confidence |->
            calculateWordConfidence(voc, normalizedAdjective, context)])]

\* Lines 103-111: the learning record, built from the counts as they are.
PutLearningData(voc, normalizedAdjective, category, context) ==
  [voc EXCEPT !.learningData =
     Put(@, normalizedAdjective,
         [adjective |-> normalizedAdjective,
          category |-> category,
          context |-> context,
          frequency |-> FrequencyOf(voc, normalizedAdjective) + 1,
          confidence |->
            calculateWordConfidence(voc, normalizedAdjective, context)])]

\* A frequency table that is started again on every call.
CountFromOne(voc, normalizedAdjective) ==
  [voc EXCEPT !.adjectiveFrequency = Put(<< >>, normalizedAdjective, 1)]

\* Lines 113-115
CountAdjective(voc, normalizedAdjective) ==
  [voc EXCEPT !.adjectiveFrequency =
     Put(@, normalizedAdjective, FrequencyOf(voc, normalizedAdjective) + 1)]

\* A pattern list that takes the word on every call.
PushAlways(voc, normalizedAdjective, context) ==
  LET patterns == IF HasKey(voc.contextPatterns, context)
                  THEN Get(voc.contextPatterns, context) ELSE << >>
  IN [voc EXCEPT !.contextPatterns =
        Put(@, context, Append(patterns, normalizedAdjective))]

\* Lines 117-123
PushContext(voc, normalizedAdjective, context) ==
  LET patterns == IF HasKey(voc.contextPatterns, context)
                  THEN Get(voc.contextPatterns, context) ELSE << >>
  IN [voc EXCEPT !.contextPatterns =
        Put(@, context,
            IF Includes(patterns, normalizedAdjective) THEN patterns
            ELSE Append(patterns, normalizedAdjective))]

\* Lines 98-123, on the outcome c of lines 92-96.
RecordAdjective(c, normalizedAdjective, category, context) ==
  IF c.err THEN c
  ELSE Ok(PushContext(
            CountAdjective(
              PutLearningData(
                PushAdjective(c.voc, normalizedAdjective, category),
                normalizedAdjective, category, context),
              normalizedAdjective),
            normalizedAdjective, context),
          << >>)

addAdjective(voc, adjective, category, context) ==
  IF ~IsUsable(voc) THEN Threw(voc)
  ELSE RecordAdjective(InitCategory(voc, category),
                       trim(toLowerCase(adjective)), category, context)

\* An outcome s that went well, with ret as what it returns.
Returning(s, ret) == IF s.err THEN s ELSE Ok(s.voc, ret)

\* learnedAdjectives.push(...) after a further step s of a learning call
\* whose steps so far had the outcome r; a throw of s ends the call and
\* keeps what was written before.
Then(r, s) == IF s.err THEN s ELSE Ok(s.voc, r.ret \o s.ret)

\* The body of matches.forEach of learnFromText, for one match.
LearnMatch(r, adjective, context) ==
  IF isValidAdjective(adjective) /\ ~isCommonWord(adjective)
  THEN Then(r, Returning(addAdjective(r.voc, adjective,
                                      detectCategory(adjective, context),
                                      context),
                         <<adjective>>))
  ELSE r

RECURSIVE LearnMatches(_, _, _)
\* The two nested forEach of learnFromText over the matches, in order.
LearnMatches(r, matches, context) ==
  IF r.err \/ matches = << >> THEN r
  ELSE LearnMatches(LearnMatch(r, trim(toLowerCase(Head(matches))), context),
                    Tail(matches), context)

learnFromText(voc, text, context) ==
  LearnMatches(Ok(voc, << >>), Concat(adjectivePatterns(text)), context)

\* The body of photo.tags.forEach of learnFromPhoto: the tag is tested and
\* pushed as given, and normalized only inside addAdjective.
LearnTag(r, tag) ==
  IF isValidAdjective(tag)
  THEN Then(r, Returning(addAdjective(r.voc, tag, detectCategory(tag, "tag"),
                                      "tag"),
                         <<tag>>))
  ELSE r

RECURSIVE LearnTags(_, _)
LearnTags(r, tags) ==
  IF r.err \/ tags = << >> THEN r
  ELSE LearnTags(LearnTag(r, Head(tags)), Tail(tags))

\* if (photo.title) / if (photo.description) of learnFromPhoto
LearnPhotoText(r, text, context) ==
  IF r.err \/ text = "" THEN r
  ELSE Then(r, learnFromText(r.voc, text, context))

\* if (photo.tags) of learnFromPhoto
LearnPhotoTags(r, photo) ==
  IF r.err \/ ~photo.hasTags THEN r ELSE LearnTags(r, photo.tags)

\* A photo is [id, title, description, hasTags, tags, hasMetadata]; a title or
\* description that is absent is "", which every test of the code (if
\* (photo.title), photo.title?.toLowerCase() || '') treats like an absent one.
learnFromPhoto(voc, photo) ==
  LearnPhotoTags(
    LearnPhotoText(
      LearnPhotoText(Ok(voc, << >>), photo.title, "title"),
      photo.description, "description"),
    photo)

(***************************************************************************)
(* The selector: generateAdjectives and its helpers.                       *)
(***************************************************************************)
\* photo.tags?.map(t => t.toLowerCase()) || []
LowerTags(photo) ==
  IF photo.hasTags THEN [i \in 1..Len(photo.tags) |-> toLowerCase(photo.tags[i])]
  ELSE << >>

\* Rules that know the night bundle only, and look for it in the title only.
TitleRules(photo) ==
  IF StrIncludes(toLowerCase(photo.title), "night")
  THEN <<"mysterious", "shadowy", "ethereal", "nocturnal", "twilight",
         "starry", "moonlit">>
  ELSE << >>

applySmartRules(photo) ==
  LET title == toLowerCase(photo.title)
      description == toLowerCase(photo.description)
      tags == LowerTags(photo)
      InText(word) == StrIncludes(title, word) \/ StrIncludes(description, word)
      InTitleOrTags(word) == StrIncludes(title, word) \/ Includes(tags, word)
  IN Concat(<<
       IF InText("sunset") \/ InText("sunrise")
       THEN <<"golden", "warm", "radiant", "glowing", "fiery", "amber",
              "crimson">> ELSE << >>,
       IF InText("night") \/ InText("dark")
       THEN <<"mysterious", "shadowy", "ethereal", "nocturnal", "twilight",
              "starry", "moonlit">> ELSE << >>,
       IF InTitleOrTags("nature") \/ InTitleOrTags("forest")
            \/ InTitleOrTags("mountain")
       THEN <<"natural", "organic", "wild", "untamed", "pristine", "rustic",
              "earthy">> ELSE << >>,
       IF InTitleOrTags("city") \/ InTitleOrTags("urban")
            \/ InTitleOrTags("street")
       THEN <<"urban", "metropolitan", "cosmopolitan", "bustling", "dynamic",
              "modern", "architectural">> ELSE << >>,
       IF InTitleOrTags("water") \/ InTitleOrTags("ocean")
            \/ InTitleOrTags("river") \/ InTitleOrTags("lake")
       THEN <<"flowing", "fluid", "reflective", "crystalline", "aquatic",
              "marine", "rippling">> ELSE << >> >>)

RECURSIVE SortByFrequency(_, _, _)
\* Array.prototype.sort((a, b) => freq[b] - freq[a]): a stable sort, so each
\* element goes behind the elements already placed whose count is not lower.
SortByFrequency(voc, arr, sorted) ==
  IF arr = << >> THEN sorted
  ELSE LET x == Head(arr)
           before == SelectSeq(sorted, LAMBDA e :
                        FrequencyOf(voc, e) >= FrequencyOf(voc, x))
           after == SelectSeq(sorted, LAMBDA e :
                        FrequencyOf(voc, e) < FrequencyOf(voc, x))
       IN SortByFrequency(voc, Tail(arr), before \o <<x>> \o after)

RECURSIVE ContextAdjectives(_, _)
\* The forEach of getLearnedAdjectives over Object.entries(contextPatterns);
\* photo.tags is truthy for every array, also for [].
ContextAdjectives(entries, photo) ==
  IF entries = << >> THEN << >>
  ELSE LET e == Head(entries)
       IN (IF e.k = "title" /\ photo.title # "" THEN e.v ELSE << >>)
            \o (IF e.k = "description" /\ photo.description # "" THEN e.v
                ELSE << >>)
            \o (IF e.k = "tag" /\ photo.hasTags THEN e.v ELSE << >>)
            \o ContextAdjectives(Tail(entries), photo)

getLearnedAdjectives(voc, photo, preferFrequent) ==
  LET contextAdjectives == ContextAdjectives(voc.contextPatterns, photo)
  IN IF preferFrequent
     THEN Slice0(SortByFrequency(voc, contextAdjectives, << >>), 5)
     ELSE Slice0(contextAdjectives, 5)

RECURSIVE ReduceBest(_, _, _)
ReduceBest(voc, arr, best) ==
  IF arr = << >> THEN best
  ELSE ReduceBest(voc, Tail(arr),
                  IF FrequencyOf(voc, Head(arr)) > FrequencyOf(voc, best)
                  THEN Head(arr) ELSE best)

\* A choice of the first word, whatever the counts.
FirstAvailable(voc, adjectives) == Head(adjectives)

\* adjectives.reduce(...) without an initial value, on a non-empty array
selectByFrequency(voc, adjectives) ==
  ReduceBest(voc, Tail(adjectives), Head(adjectives))

\* Math.floor(Math.random() * length) for the n-th call of Math.random() of
\* an operation; draws is the cyclic list of the values Math.random() takes,
\* each k standing for k / RandLevels.
RandomIndex(draws, n, length) ==
  (draws[((n - 1) % Len(draws)) + 1] * length) \div RandLevels

RECURSIVE CatalogFill(_, _, _, _, _, _)
\* allCategories.forEach: one word of each category that is neither in
\* existing nor in generated so far; n counts the calls of Math.random().
CatalogFill(voc, lists, existing, generated, pick, n) ==
  IF lists = << >> THEN generated
  ELSE LET available == SelectSeq(Head(lists), LAMBDA adj :
                           ~Includes(existing, adj) /\ ~Includes(generated, adj))
       IN IF available = << >>
          THEN CatalogFill(voc, Tail(lists), existing, generated, pick, n)
          ELSE IF pick.preferFrequent
          THEN CatalogFill(voc, Tail(lists), existing,
                           Append(generated, selectByFrequency(voc, available)),
                           pick, n)
          ELSE CatalogFill(voc, Tail(lists), existing,
                           Append(generated,
                                  available[RandomIndex(pick.draws, n,
                                                        Len(available)) + 1]),
                           pick, n + 1)

\* A variant that puts the generated words before the existing ones.
GeneratedFirst(voc, photo, existing, max, options, draws) ==
  IF ~IsUsable(voc) THEN Threw(voc)
  ELSE Ok(voc,
          Slice0(SetOrder(
                   CatalogFill(voc, Values(voc.categories), existing,
                               applySmartRules(photo)
                                 \o (IF options.useLearning
                                     THEN getLearnedAdjectives(
                                            voc, photo, options.preferFrequent)
                                     ELSE << >>),
                               [preferFrequent |-> options.preferFrequent,
                                draws |-> draws], 1)
                     \o existing, << >>),
                 max))

\* options is [useLearning, preferFrequent], the defaults already applied.
generateAdjectives(voc, photo, existing, max, options, draws) ==
  IF ~IsUsable(voc) THEN Threw(voc)
  ELSE LET smartAdjectives == applySmartRules(photo)
           learnedAdjectives ==
             IF options.useLearning
             THEN getLearnedAdjectives(voc, photo, options.preferFrequent)
             ELSE << >>
           generated ==
             CatalogFill(voc, Values(voc.categories), existing,
                         smartAdjectives \o learnedAdjectives,
                         [preferFrequent |-> options.preferFrequent,
                          draws |-> draws], 1)
       IN Ok(voc, Slice0(SetOrder(existing \o generated, << >>), max))

(***************************************************************************)
(* Read operations and snapshots.                                          *)
(***************************************************************************)
RECURSIVE SumLengths(_)
SumLengths(lists) ==
  IF lists = << >> THEN 0 ELSE Len(Head(lists)) + SumLengths(Tail(lists))

getVocabularyStats(voc) ==
  IF ~IsUsable(voc) THEN Threw(voc)
  ELSE Ok(voc,
          [totalAdjectives |-> SumLengths(Values(voc.categories)),
           categories |-> Len(Keys(voc.categories)),
           newAdjectivesLearned |-> Len(Keys(voc.learningData)),
           categoryBreakdown |->
             [i \in 1..Len(voc.categories) |->
                [k |-> voc.categories[i].k, v |-> Len(voc.categories[i].v)]]])

getAllCategories(voc) ==
  IF ~IsUsable(voc) THEN Threw(voc) ELSE Ok(voc, Keys(voc.categories))

\* The names every plain object inherits from Object.prototype: categories
\* is an object literal (or the result of JSON.parse), so categories[name]
\* finds them although no category of that name was ever created.
InheritedNames ==
  {"constructor", "toString", "toLocaleString", "valueOf", "hasOwnProperty",
   "isPrototypeOf", "propertyIsEnumerable", "__proto__"}

\* What such a lookup yields: a function (or the prototype object), which is
\* truthy and is not an array.  It is written as a one-entry list so that it
\* can be compared with the lists the other lookups return.
InheritedValue == <<"[inherited from Object.prototype]">>

\* A lookup that creates the category it does not find.
LookupCreating(voc, category) ==
  IF ~IsUsable(voc) THEN Threw(voc)
  ELSE IF HasKey(voc.categories, category)
  THEN Ok(voc, Get(voc.categories, category))
  ELSE Ok([voc EXCEPT !.categories = Put(@, category, << >>)], << >>)

\* this.vocabulary.categories[category] || []
getAdjectivesByCategory(voc, category) ==
  IF ~IsUsable(voc) THEN Threw(voc)
  ELSE Ok(voc, IF HasKey(voc.categories, category)
               THEN Get(voc.categories, category)
               ELSE IF category \in InheritedNames THEN InheritedValue
               ELSE << >>)

\* The entries left in the order of the table.
EntriesAsStored(entries, sorted) == entries

RECURSIVE SortEntriesDesc(_, _)
\* Object.entries(adjectiveFrequency).sort(([, a], [, b]) => b - a), stable
SortEntriesDesc(entries, sorted) ==
  IF entries = << >> THEN sorted
  ELSE LET x == Head(entries)
       IN SortEntriesDesc(Tail(entries),
            SelectSeq(sorted, LAMBDA e : e.v >= x.v) \o <<x>>
              \o SelectSeq(sorted, LAMBDA e : e.v < x.v))

getMostFrequentAdjectives(voc, limit) ==
  IF ~IsUsable(voc) THEN Threw(voc)
  ELSE LET top == Slice0(SortEntriesDesc(voc.adjectiveFrequency, << >>), limit)
       IN Ok(voc, [i \in 1..Len(top) |->
                     [adjective |-> top[i].k, frequency |-> top[i].v]])

\* JSON.parse(JSON.stringify(value)): strings, numbers, arrays and plain
\* objects come back equal and new; a Set is written as {} and comes back as
\* a plain object; null comes back as null.
JsonClone(voc) ==
  IF voc.shape = "object"
  THEN [voc EXCEPT !.customCategories = [isSet |-> FALSE, names |-> {}]]
  ELSE voc

(***************************************************************************)
(* The agent: analyzePhoto and its helpers (agent.ts).                     *)
(***************************************************************************)
DefaultMaxAdjectives == 10

\* Options that are never looked at: every one takes its default.
OptIgnored(options, name, default) == default

\* An options object is [given, maxAdjectives, includeCategories,
\* enhanceDescription, learnFromInput, expandVocabulary]: given is the set
\* of the properties the caller wrote, the others take their default.
Opt(options, name, default) ==
  IF name \in options.given THEN options[name] ELSE default

Compliments ==
  {"beautiful", "stunning", "amazing", "gorgeous", "lovely", "nice", "great",
   "wonderful", "excellent", "perfect"}

RECURSIVE ComplimentMatches(_)
\* description.match(/\b(beautiful|...|perfect)\b/gi).map(m => m.toLowerCase())
ComplimentMatches(toks) ==
  IF toks = << >> THEN << >>
  ELSE (IF Head(toks).word /\ toLowerCase(Head(toks).text) \in Compliments
        THEN <<toLowerCase(Head(toks).text)>> ELSE << >>)
         \o ComplimentMatches(Tail(toks))

\* The agent's own copy of the seed lists, which learning never changes.
adjectiveCategories == SeedCategories

extractExistingAdjectives(photo) ==
  LET fromDescription ==
        IF photo.description # ""
        THEN ComplimentMatches(Tokenize(photo.description)) ELSE << >>
      seeds == Concat(Values(adjectiveCategories))
      fromTags ==
        IF photo.hasTags
        THEN SelectSeq(photo.tags, LAMBDA tag : Includes(seeds, toLowerCase(tag)))
        ELSE << >>
  IN SetOrder(fromDescription \o fromTags, << >>)

RECURSIVE LegacyFill(_, _, _, _, _)
LegacyFill(lists, existing, generated, draws, n) ==
  IF lists = << >> THEN generated
  ELSE LET available == SelectSeq(Head(lists), LAMBDA adj :
                           ~Includes(existing, adj) /\ ~Includes(generated, adj))
       IN IF available = << >>
          THEN LegacyFill(Tail(lists), existing, generated, draws, n)
          ELSE LegacyFill(Tail(lists), existing,
                          Append(generated,
                                 available[RandomIndex(draws, n, Len(available)) + 1]),
                          draws, n + 1)

generateAdjectivesLegacy(photo, existing, max, draws) ==
  LET title == toLowerCase(photo.title)
      themed ==
        (IF StrIncludes(title, "sunset") \/ StrIncludes(title, "sunrise")
         THEN <<"golden", "warm", "radiant">> ELSE << >>)
          \o (IF StrIncludes(title, "night") \/ StrIncludes(title, "dark")
              THEN <<"mysterious", "shadowy", "ethereal">> ELSE << >>)
      generated ==
        LegacyFill(Values(adjectiveCategories), existing, themed, draws, 1)
  IN Slice0(SetOrder(existing \o generated, << >>), max)

RECURSIVE Categorize(_, _, _)
\* The lookup is getAdjectivesByCategory(adj)[0] || 'descriptive': the
\* adjective itself is used as the category name.  Index 0 of an inherited
\* function is undefined.
Categorize(voc, adjectives, categorized) ==
  IF adjectives = << >> THEN categorized
  ELSE LET adj == Head(adjectives)
           words == getAdjectivesByCategory(voc, adj).ret
           category == IF words = InheritedValue THEN "descriptive"
                       ELSE IF words # << >> /\ words[1] # "" THEN words[1]
                       ELSE "descriptive"
           sofar == IF HasKey(categorized, category)
                    THEN Get(categorized, category) ELSE << >>
       IN Categorize(voc, Tail(adjectives),
                     Put(categorized, category, Append(sofar, adj)))

categorizeAdjectives(voc, adjectives) ==
  IF adjectives # << >> /\ ~IsUsable(voc) THEN Threw(voc)
  ELSE Ok(voc, Categorize(voc, adjectives, << >>))

RECURSIVE Join(_, _)
\* Array.prototype.join
Join(arr, sep) ==
  IF arr = << >> THEN ""
  ELSE IF Len(arr) = 1 THEN arr[1]
  ELSE arr[1] \o sep \o Join(Tail(arr), sep)

createEnhancedDescription(photo, adjectives) ==
  LET base == IF photo.description # "" THEN photo.description
              ELSE "A photo titled \""
                     \o (IF photo.title # "" THEN photo.title ELSE "Untitled")
                     \o "\""
  IN base \o ". This " \o Join(Slice0(adjectives, 3), ", ")
       \o " image captures a unique moment."

\* A variant that gives the tag bonus to every photo with a tags array.
ConfidenceOfAnyTags(photo) ==
  Min(5 + (IF photo.title # "" THEN 1 ELSE 0)
        + (IF photo.description # "" THEN 2 ELSE 0)
        + (IF photo.hasTags THEN 1 ELSE 0)
        + (IF photo.hasMetadata THEN 1 ELSE 0), 10)

\* Per-photo confidence in tenths.
calculateConfidence(photo) ==
  LET c1 == 5 + (IF photo.title # "" THEN 1 ELSE 0)
      c2 == c1 + (IF photo.description # "" THEN 2 ELSE 0)
      c3 == c2 + (IF photo.hasTags /\ Len(photo.tags) > 0 THEN 1 ELSE 0)
      c4 == c3 + (IF photo.hasMetadata THEN 1 ELSE 0)
  IN Min(c4, 10)

\* The return statement of analyzePhoto; the result leaves out the timestamp.
AnalysisResult(v1, photo, adjectives, categorized, enhanced, stats) ==
  IF categorized.err \/ stats.err THEN Threw(v1)
  ELSE Ok(v1, [photoId |-> photo.id,
               adjectives |-> adjectives,
               categories |-> categorized.ret,
               enhancedDescription |-> enhanced,
               confidence |-> calculateConfidence(photo),
               vocabularyStats |-> stats.ret])

\* analyzePhoto from categorizedAdjectives on
AnalyzeGenerated(v1, photo, options, generated) ==
  IF generated.err THEN Threw(v1)
  ELSE AnalysisResult(
         v1, photo, generated.ret,
         IF Opt(options, "includeCategories", TRUE)
         THEN categorizeAdjectives(v1, generated.ret) ELSE Ok(v1, << >>),
         IF Opt(options, "enhanceDescription", TRUE)
         THEN createEnhancedDescription(photo, generated.ret)
         ELSE photo.description,
         getVocabularyStats(v1))

\* analyzePhoto from existingAdjectives on
AnalyzeLearned(learned, photo, options, draws, existing, maxAdjectives) ==
  IF learned.err THEN Threw(learned.voc)
  ELSE AnalyzeGenerated(
         learned.voc, photo, options,
         IF Opt(options, "expandVocabulary", TRUE)
         THEN generateAdjectives(learned.voc, photo, existing, maxAdjectives,
                                 [useLearning |-> TRUE, preferFrequent |-> TRUE],
                                 draws)
         ELSE Ok(learned.voc,
                 generateAdjectivesLegacy(photo, existing, maxAdjectives,
                                          draws)))

\* analyzePhoto is an async function without an await: called, it runs to
\* its end, and what it throws rejects the promise it returns.
analyzePhoto(voc, photo, options, draws) ==
  AnalyzeLearned(
    IF Opt(options, "learnFromInput", TRUE) THEN learnFromPhoto(voc, photo)
    ELSE Ok(voc, << >>),
    photo, options, draws, extractExistingAdjectives(photo),
    Opt(options, "maxAdjectives", DefaultMaxAdjectives))

\* The outcomes acc of the calls made so far, and the outcome r of one more.
Collected(acc, r) ==
  [voc |-> r.voc, err |-> acc.err \/ r.err, ret |-> Append(acc.ret, r.ret)]

RECURSIVE MapAnalyze(_, _, _, _)
\* photos.map(photo => this.analyzePhoto(photo, options)): every call is
\* made, in input order, and has run to its end before the next one is made.
MapAnalyze(photos, options, draws, acc) ==
  IF photos = << >> THEN acc
  ELSE MapAnalyze(Tail(photos), options, draws,
                  Collected(acc,
                            analyzePhoto(acc.voc, Head(photos), options, draws)))

\* Promise.all: the results in input order, or a rejection when a call
\* threw (after every call has been made).
Settled(all) ==
  [voc |-> all.voc, err |-> all.err,
   ret |-> IF all.err THEN << >> ELSE all.ret]

RECURSIVE MapLearnOnly(_, _, _)
MapLearnOnly(photos, options, acc) ==
  IF photos = << >> \/ ~Opt(options, "learnFromInput", TRUE) THEN acc
  ELSE MapLearnOnly(Tail(photos), options,
                    Returning(learnFromPhoto(acc.voc, Head(photos)), << >>))

\* A variant in which analyzePhoto would give up control after learning: the
\* map then runs the learning of every photo before any selection.
SuspendingBatch(voc, photos, options, draws) ==
  Settled(MapAnalyze(photos,
                     [options EXCEPT !.given = @ \cup {"learnFromInput"},
                                     !.learnFromInput = FALSE],
                     draws, MapLearnOnly(photos, options, Ok(voc, << >>))))

analyzePhotoBatch(voc, photos, options, draws) ==
  Settled(MapAnalyze(photos, options, draws, Ok(voc, << >>)))

(***************************************************************************)
(* The heap.  A vocabulary object and everything it holds is one cell; a   *)
(* reference is the address of a cell.  JSON.parse builds a new object, so *)
(* exportVocabulary and importVocabulary write a cell nobody else holds.   *)
(***************************************************************************)
Addr == {1, 2}

Unallocated == [NullVocabulary EXCEPT !.shape = "unallocated"]

\* The literal undefined, as an argument of importVocabulary.
UndefinedValue == [NullVocabulary EXCEPT !.shape = "undefined"]

\* The address of a new object: the lowest one that no kept reference holds.
Alloc(keep) == CHOOSE a \in Addr \ keep : \A b \in Addr \ keep : a <= b

\* Cells no reference holds are given back.
Collect(h, roots) == [a \in Addr |-> IF a \in roots THEN h[a] ELSE Unallocated]

\* exportVocabulary(): this is the address in this.vocabulary; ret is the
\* address handed to the caller.
ExportByReference(h, this) == [heap |-> h, ret |-> this]

exportVocabulary(h, this) ==
  LET a == Alloc({this})
  IN [heap |-> [h EXCEPT ![a] = JsonClone(h[this])], ret |-> a]

\* importVocabulary(vocabulary): arg is [ref, value], ref the address of the
\* argument (0 for a literal) and value what it holds; keep are the addresses
\* the caller holds.  JSON.stringify(undefined) is undefined, which
\* JSON.parse rejects with a SyntaxError before anything is assigned.
ImportMerging(h, this, keep, arg) ==
  IF arg.value.shape # "object" \/ h[this].shape # "object"
  THEN [heap |-> h, this |-> this, err |-> arg.value.shape = "undefined"]
  ELSE [heap |-> [h EXCEPT ![this] =
                    [JsonClone(arg.value) EXCEPT !.adjectiveFrequency =
                       IF h[this].adjectiveFrequency = << >> THEN @
                       ELSE h[this].adjectiveFrequency]],
        this |-> this, err |-> FALSE]

importVocabulary(h, this, keep, arg) ==
  IF arg.value.shape = "undefined"
  THEN [heap |-> h, this |-> this, err |-> TRUE]
  ELSE LET a == Alloc(keep)
       IN [heap |-> [h EXCEPT ![a] = JsonClone(arg.value)],
           this |-> a, err |-> FALSE]

(***************************************************************************)
(* Inputs.                                                                 *)
(***************************************************************************)
Photo(id, title, description, hasTags, tags, hasMetadata) ==
  [id |-> id, title |-> title, description |-> description,
   hasTags |-> hasTags, tags |-> tags, hasMetadata |-> hasMetadata]

PhotoMinimal == Photo("test-2", "", "", FALSE, << >>, FALSE)

PhotoSunset ==
  Photo("test-1", "Golden Sunset", "A beautiful sunset over the mountains",
        TRUE, <<"nature", "landscape">>, FALSE)

PhotoNight ==
  Photo("night-1", "Night City", "", TRUE, << >>, TRUE)

PhotoDusk ==
  Photo("dusk-1", "Sunset", "A forest just before the NIGHT", TRUE,
        <<"moody">>, FALSE)

PhotoLake ==
  Photo("lake-1", "Lake", "A lovely lake", TRUE, <<"water">>, TRUE)

Options(given, maxAdjectives, categories, enhance, learn, expand) ==
  [given |-> given, maxAdjectives |-> maxAdjectives,
   includeCategories |-> categories, enhanceDescription |-> enhance,
   learnFromInput |-> learn, expandVocabulary |-> expand]

\* analyzePhoto(photo): no options object.
DefaultOptions == Options({}, 0, TRUE, TRUE, TRUE, TRUE)

\* { maxAdjectives: 5 }
FiveOptions == Options({"maxAdjectives"}, 5, TRUE, TRUE, TRUE, TRUE)

\* { maxAdjectives: 2, includeCategories: false, enhanceDescription: false,
\*   learnFromInput: false }
BareOptions ==
  Options({"maxAdjectives", "includeCategories", "enhanceDescription",
           "learnFromInput"}, 2, FALSE, FALSE, FALSE, TRUE)

\* { maxAdjectives: 8, learnFromInput: false, expandVocabulary: false }
LegacyOptions ==
  Options({"maxAdjectives", "learnFromInput", "expandVocabulary"},
          8, TRUE, TRUE, FALSE, FALSE)

AddInput == <<" Vivid ", "custom-category", "test">>

TextInput ==
  <<"This is a magnificent, extraordinary, and phenomenal photograph",
    "description">>

\* The values Math.random() takes in one operation: every call of it in one
\* operation falls into the same of the RandLevels parts of [0, 1).
DrawStreams == {<<d>> : d \in 0..(RandLevels - 1)}

NoDraws == <<0>>

\* Math.random() is called only by the random catalog fill.
DrawsFor(random) == IF random THEN DrawStreams ELSE {NoDraws}

AnalyzeOptions == {DefaultOptions, FiveOptions, BareOptions, LegacyOptions}

Photos == {PhotoMinimal, PhotoSunset, PhotoNight, PhotoLake}

Batches == {<<PhotoMinimal, PhotoSunset>>, <<PhotoSunset, PhotoMinimal>>}

ExistingInputs == {<< >>, <<"warm", "serene", "warm">>}

MaxInputs == {0, 1, 20}

SelectOptions == [useLearning : BOOLEAN, preferFrequent : BOOLEAN]

(***************************************************************************)
(* State.                                                                  *)
(***************************************************************************)
VARIABLES
  heap,        \* the objects: Addr -> vocabulary object
  vocabulary,  \* this.vocabulary of the agent's manager: an address
  exported,    \* the snapshot the caller holds: an address, 0 for none
  nops,        \* learning, analysis and selection calls made so far
  nsnap,       \* constructor, export, import and snapshot writes so far
  lastOp,      \* the last call and what it found: see Call
  hist         \* where the snapshot and the vocabulary come from

vars == <<heap, vocabulary, exported, nops, nsnap, lastOp, hist>>

Live == heap[vocabulary]

Snapshot == IF exported = 0 THEN Unallocated ELSE heap[exported]

\* store and snapshot are the two objects as they were before the call,
\* where a property below needs them; add is what addCustomAdjective found.
Call(op, arg, err, ret) ==
  [op |-> op, arg |-> arg, err |-> err, ret |-> ret,
   store |-> << >>, snapshot |-> << >>, add |-> << >>]

\* What the read operations return on a vocabulary object: for every
\* category name in names and every limit up to the number of counted words.
Outcome(r) == [err |-> r.err, ret |-> r.ret]

Reads(voc, names) ==
  [stats |-> Outcome(getVocabularyStats(voc)),
   categories |-> Outcome(getAllCategories(voc)),
   words |-> [c \in names |-> Outcome(getAdjectivesByCategory(voc, c))],
   frequent |-> [n \in 0..(Len(voc.adjectiveFrequency) + 1) |->
                   Outcome(getMostFrequentAdjectives(voc, n))]]

ProbeNames ==
  {SeedCategories[i].k : i \in 1..Len(SeedCategories)}
    \cup {AddInput[2], "descriptive", "unknown"}

ReadsOf(voc) == Reads(voc, ProbeNames)

Init ==
  /\ heap = [a \in Addr |-> IF a = 1 THEN NewVocabulary ELSE Unallocated]
  /\ vocabulary = 1
  /\ exported = 0
  /\ nops = 0
  /\ nsnap = 0
  /\ lastOp = Call("new", << >>, FALSE, << >>)
  /\ hist = [source |-> << >>, pristine |-> TRUE, snapTainted |-> FALSE,
             tainted |-> FALSE]

\* new AdjectiveAgent(): the caller drops the old agent.
Construct ==
  LET a == Alloc({exported} \ {0})
  IN /\ nsnap < MaxSnapshotOps
     /\ nsnap' = nsnap + 1
     /\ heap' = Collect([heap EXCEPT ![a] = NewVocabulary], {a, exported})
     /\ vocabulary' = a
     /\ lastOp' = Call("new", << >>, FALSE, << >>)
     /\ hist' = [hist EXCEPT !.tainted = FALSE]
     /\ UNCHANGED <<exported, nops>>

\* A call on the agent with the outcome r: what it wrote, threw or returned.
Apply(call, r) ==
  /\ nops' = nops + 1
  /\ heap' = [heap EXCEPT ![vocabulary] = r.voc]
  /\ lastOp' = [call EXCEPT !.err = r.err, !.ret = r.ret]
  /\ UNCHANGED <<vocabulary, exported, nsnap, hist>>

\* What an addCustomAdjective call finds: the count of the word, and the
\* count before the call made just before when that was the same call.
AddFound(arg) ==
  LET before == FrequencyOf(Live, trim(toLowerCase(arg[1])))
      repeated == lastOp.op = "addCustomAdjective" /\ lastOp.arg = arg
  IN [repeated |-> repeated, before |-> before,
      beforeBoth |-> IF repeated THEN lastOp.add.before ELSE before]

\* agent.addCustomAdjective(adjective, category, context)
AddCustomAdjective(adjective, category, context) ==
  /\ nops < MaxOps
  /\ Apply([Call("addCustomAdjective", <<adjective, category, context>>,
                 FALSE, << >>)
              EXCEPT !.snapshot = Snapshot,
                     !.add = AddFound(<<adjective, category, context>>)],
           addAdjective(Live, adjective, category, context))

\* agent.addCustomAdjective(adjective, category, context), as one more
\* event of a history of up to MaxHistory events
LearnAgain(adjective, category, context) ==
  /\ nops < MaxHistory
  /\ Apply([Call("addCustomAdjective", <<adjective, category, context>>,
                 FALSE, << >>)
              EXCEPT !.snapshot = Snapshot,
                     !.add = AddFound(<<adjective, category, context>>)],
           addAdjective(Live, adjective, category, context))

\* agent.learnFromText(text, context)
LearnFromText(text, context) ==
  /\ nops < MaxOps
  /\ Apply([Call("learnFromText", <<text, context>>, FALSE, << >>)
              EXCEPT !.store = Live, !.snapshot = Snapshot],
           learnFromText(Live, text, context))

\* agent.analyzePhoto(photo, options)
AnalyzePhoto(photo, options, draws) ==
  /\ nops < MaxOps
  /\ Apply([Call("analyzePhoto",
                 [photo |-> photo, options |-> options, draws |-> draws],
                 FALSE, << >>)
              EXCEPT !.store = Live, !.snapshot = Snapshot],
           analyzePhoto(Live, photo, options, draws))

\* agent.analyzePhotoBatch(photos, options)
AnalyzePhotoBatch(photos, options, draws) ==
  /\ nops < MaxOps
  /\ Apply([Call("analyzePhotoBatch",
                 [photos |-> photos, options |-> options, draws |-> draws],
                 FALSE, << >>)
              EXCEPT !.store = Live],
           analyzePhotoBatch(Live, photos, options, draws))

\* vocabularyManager.generateAdjectives(photo, existing, max, options)
GenerateAdjectives(photo, existing, max, options, draws) ==
  /\ nops < MaxOps
  /\ Apply([Call("generateAdjectives",
                 [photo |-> photo, existing |-> existing, max |-> max,
                  options |-> options, draws |-> draws],
                 FALSE, << >>)
              EXCEPT !.store = Live],
           generateAdjectives(Live, photo, existing, max, options, draws))

\* exported = agent.exportVocabulary()
ExportVocabulary ==
  LET r == exportVocabulary(heap, vocabulary)
  IN /\ nsnap < MaxSnapshotOps
     /\ nsnap' = nsnap + 1
     /\ heap' = Collect(r.heap, {vocabulary, r.ret})
     /\ exported' = r.ret
     /\ lastOp' = [Call("exportVocabulary", << >>, FALSE, << >>)
                     EXCEPT !.store = Live]
     /\ hist' = [hist EXCEPT !.source = ReadsOf(Live), !.pristine = TRUE,
                             !.snapTainted = hist.tainted]
     /\ UNCHANGED <<vocabulary, nops>>

\* agent.importVocabulary(exported)
ImportVocabulary ==
  LET r == importVocabulary(heap, vocabulary, {exported},
                            [ref |-> exported, value |-> Snapshot])
  IN /\ exported # 0
     /\ nsnap < MaxSnapshotOps
     /\ nsnap' = nsnap + 1
     /\ heap' = Collect(r.heap, {r.this, exported})
     /\ vocabulary' = r.this
     /\ lastOp' = [Call("importVocabulary", << >>, r.err, << >>)
                     EXCEPT !.store = Live]
     /\ hist' = [hist EXCEPT !.tainted = hist.snapTainted \/ ~hist.pristine]
     /\ UNCHANGED <<exported, nops>>

\* agent.importVocabulary(null), ({}) or (undefined)
ImportMalformed(value) ==
  LET r == importVocabulary(heap, vocabulary, {exported} \ {0},
                            [ref |-> 0, value |-> value])
  IN /\ nsnap < MaxSnapshotOps
     /\ nsnap' = nsnap + 1
     /\ heap' = Collect(r.heap, {r.this, exported})
     /\ vocabulary' = r.this
     /\ lastOp' = [Call("importMalformed", value.shape, r.err, << >>)
                     EXCEPT !.store = Live]
     /\ hist' = [hist EXCEPT !.tainted = @ \/ ~r.err]
     /\ UNCHANGED <<exported, nops>>

\* The caller writes into the snapshot it holds:
\* exported.categories.mood = ['tampered']
MutateExported ==
  /\ exported # 0
  /\ Snapshot.shape = "object"
  /\ nsnap < MaxSnapshotOps
  /\ nsnap' = nsnap + 1
  /\ heap' = [heap EXCEPT ![exported].categories =
                Put(@, "mood", <<"tampered">>)]
  /\ lastOp' = [Call("mutateExported", << >>, FALSE, << >>)
                  EXCEPT !.store = Live]
  /\ hist' = [hist EXCEPT !.pristine = FALSE]
  /\ UNCHANGED <<vocabulary, exported, nops>>

\* A read on the agent with the outcome r; store is the vocabulary object
\* the read found.
Query(call, r) ==
  /\ heap' = [heap EXCEPT ![vocabulary] = r.voc]
  /\ lastOp' = [call EXCEPT !.err = r.err, !.ret = r.ret, !.store = Live]
  /\ UNCHANGED <<vocabulary, exported, hist>>

\* agent.getVocabularyStats()
GetVocabularyStats ==
  /\ UNCHANGED <<nops, nsnap>>
  /\ Query(Call("getVocabularyStats", << >>, FALSE, << >>),
           getVocabularyStats(Live))

\* agent.getAllCategories()
GetAllCategories ==
  /\ UNCHANGED <<nops, nsnap>>
  /\ Query(Call("getAllCategories", << >>, FALSE, << >>),
           getAllCategories(Live))

\* agent.getAdjectivesByCategory(category)
GetAdjectivesByCategory(category) ==
  /\ UNCHANGED <<nops, nsnap>>
  /\ Query(Call("getAdjectivesByCategory", category, FALSE, << >>),
           getAdjectivesByCategory(Live, category))

\* agent.getMostFrequentAdjectives(limit)
GetMostFrequentAdjectives(limit) ==
  /\ UNCHANGED <<nops, nsnap>>
  /\ Query(Call("getMostFrequentAdjectives", limit, FALSE, << >>),
           getMostFrequentAdjectives(Live, limit))

\* detectCategory(adjective, context), the classification learnFromText and
\* learnFromPhoto file a word under
DetectCategory(adjective, context) ==
  /\ UNCHANGED <<nops, nsnap>>
  /\ Query(Call("detectCategory", <<adjective, context>>, FALSE, << >>),
           Ok(Live, detectCategory(adjective, context)))

(***************************************************************************)
(* Spec: the life of one engine and of the snapshot its caller holds.      *)
(***************************************************************************)
Next ==
  \/ Construct
  \/ AddCustomAdjective(AddInput[1], AddInput[2], AddInput[3])
  \/ LearnFromText(TextInput[1], TextInput[2])
  \/ AnalyzePhoto(PhotoSunset, DefaultOptions, NoDraws)
  \/ ExportVocabulary
  \/ ImportVocabulary
  \/ \E value \in {NullVocabulary, EmptyObject, UndefinedValue} :
       ImportMalformed(value)
  \/ MutateExported

Spec == Init /\ [][Next]_vars

(***************************************************************************)
(* SelectSpec: selection and analysis, on a new engine and on one that     *)
(* has learned.                                                            *)
(***************************************************************************)
SelectNext ==
  \/ AddCustomAdjective(AddInput[1], AddInput[2], AddInput[3])
  \/ LearnFromText(TextInput[1], TextInput[2])
  \/ \E photo \in Photos, options \in AnalyzeOptions :
       \E draws \in DrawsFor(~Opt(options, "expandVocabulary", TRUE)) :
         AnalyzePhoto(photo, options, draws)
  \/ \E photos \in Batches, options \in {DefaultOptions, FiveOptions} :
       AnalyzePhotoBatch(photos, options, NoDraws)
  \/ \E photo \in {PhotoMinimal, PhotoSunset}, existing \in ExistingInputs,
        max \in MaxInputs, options \in SelectOptions :
       \E draws \in DrawsFor(~options.preferFrequent) :
         GenerateAdjectives(photo, existing, max, options, draws)

SelectSpec == Init /\ [][SelectNext]_vars

(***************************************************************************)
(* ReadSpec: an engine that learns, is exported and imported, and is read  *)
(* in between.                                                             *)
(***************************************************************************)
AddAgainInput == <<"phenomenal", "mood", "title">>

CategoryInputs == {"mood", "unknown", "constructor"}

LimitInputs == {0, 2, 10}

ClassifyInputs == {<<"serene", "title">>, <<"happy", "title">>}

ReadNext ==
  \/ AddCustomAdjective(AddInput[1], AddInput[2], AddInput[3])
  \/ AddCustomAdjective(AddAgainInput[1], AddAgainInput[2], AddAgainInput[3])
  \/ LearnFromText(TextInput[1], TextInput[2])
  \/ AnalyzePhoto(PhotoSunset, DefaultOptions, NoDraws)
  \/ GenerateAdjectives(PhotoSunset, << >>, 10,
                        [useLearning |-> TRUE, preferFrequent |-> TRUE],
                        NoDraws)
  \/ ExportVocabulary
  \/ ImportVocabulary
  \/ GetVocabularyStats
  \/ GetAllCategories
  \/ \E category \in CategoryInputs : GetAdjectivesByCategory(category)
  \/ \E limit \in LimitInputs : GetMostFrequentAdjectives(limit)
  \/ \E input \in ClassifyInputs : DetectCategory(input[1], input[2])

ReadSpec == Init /\ [][ReadNext]_vars

(***************************************************************************)
(* LearnSpec: texts learned one after the other, on a new engine and on    *)
(* one that was exported and imported, and words selected from what was    *)
(* learned.                                                                *)
(***************************************************************************)
Texts ==
  {TextInput[1],
   "This may be the over-done or under-used older, lower and newest",
   "Good and bad by day, sunny, sunny",
   "calm or quiet"}

LearnNext ==
  \/ \E text \in Texts, context \in {"description", "tag"} :
       LearnFromText(text, context)
  \/ \E existing \in {<< >>, <<"sunny", "day", "serene">>},
        preferFrequent \in BOOLEAN :
       \E draws \in DrawsFor(~preferFrequent) :
         GenerateAdjectives(PhotoMinimal, existing, 20,
                            [useLearning |-> TRUE,
                             preferFrequent |-> preferFrequent], draws)
  \/ ExportVocabulary
  \/ ImportVocabulary

LearnSpec == Init /\ [][LearnNext]_vars

(***************************************************************************)
(* ThemeSpec: photos of the night, selected for and analyzed one after the *)
(* other, while the engine learns.                                         *)
(***************************************************************************)
NightPhotos == {PhotoNight, PhotoDusk}

ThemeNext ==
  \/ AddCustomAdjective(AddInput[1], AddInput[2], AddInput[3])
  \/ LearnFromText(TextInput[1], TextInput[2])
  \/ \E photo \in NightPhotos : AnalyzePhoto(photo, DefaultOptions, NoDraws)
  \/ \E photo \in NightPhotos, max \in {10, 20}, options \in SelectOptions :
       \E draws \in DrawsFor(~options.preferFrequent) :
         GenerateAdjectives(photo, << >>, max, options, draws)
  \/ ExportVocabulary
  \/ ImportVocabulary

ThemeSpec == Init /\ [][ThemeNext]_vars

(***************************************************************************)
(* HistorySpec: one word learned again and again, under one context or     *)
(* another.                                                                *)
(***************************************************************************)
HistoryWord == "vivid"

HistoryContexts == {"title", "description", "tag", "general"}

HistoryNext ==
  \E context \in HistoryContexts : LearnAgain(HistoryWord, "mood", context)

HistorySpec == Init /\ [][HistoryNext]_vars

(***************************************************************************)
(* FrameSpec: an engine that is never imported into: it learns, and is     *)
(* read, selected from, exported and analyzed without learning.            *)
(***************************************************************************)
FrameNext ==
  \/ AddCustomAdjective(AddInput[1], AddInput[2], AddInput[3])
  \/ AddCustomAdjective(AddAgainInput[1], AddAgainInput[2], AddAgainInput[3])
  \/ LearnFromText(TextInput[1], TextInput[2])
  \/ \E options \in {DefaultOptions, BareOptions, LegacyOptions} :
       \E draws \in DrawsFor(~Opt(options, "expandVocabulary", TRUE)) :
         AnalyzePhoto(PhotoSunset, options, draws)
  \/ GenerateAdjectives(PhotoSunset, << >>, 20,
                        [useLearning |-> TRUE, preferFrequent |-> TRUE],
                        NoDraws)
  \/ ExportVocabulary
  \/ GetVocabularyStats
  \/ GetAllCategories
  \/ \E category \in {"mood", "unknown"} : GetAdjectivesByCategory(category)
  \/ GetMostFrequentAdjectives(10)

FrameSpec == Init /\ [][FrameNext]_vars

(***************************************************************************)
(* Properties.                                                             *)
(***************************************************************************)
Occurrences(arr, x) == Len(SelectSeq(arr, LAMBDA e : e = x))

\* C1: in any store state, two consecutive addCustomAdjective(w, c, ctx)
\* calls leave the list of category c holding the lower-cased, trimmed w
\* exactly once, and the count of w exactly 2 higher than before the two
\* calls.
C1_AddTwiceOnceInListCountPlusTwo ==
  (lastOp.op = "addCustomAdjective" /\ lastOp.add.repeated) =>
    /\ HasKey(Live.categories, lastOp.arg[2])
    /\ Occurrences(Get(Live.categories, lastOp.arg[2]),
                   trim(toLowerCase(lastOp.arg[1]))) = 1
    /\ FrequencyOf(Live, trim(toLowerCase(lastOp.arg[1])))
         = lastOp.add.beforeBoth + 2

\* C2: after importVocabulary of a snapshot that exportVocabulary returned
\* (and nobody wrote into), every read operation returns on the importing
\* engine what it returned on the exporting one when it exported, whatever
\* the importing engine held before.
C2_ImportReproducesExportedReads ==
  (lastOp.op = "importVocabulary" /\ hist.pristine) =>
    /\ ~lastOp.err
    /\ ReadsOf(Live) = hist.source

\* The importing engine held learned words that the exporting one did not
\* have, and the exporting one had learned words too.
C2_Witness ==
  /\ lastOp.op = "importVocabulary"
  /\ hist.pristine
  /\ ~lastOp.err
  /\ ~hist.source.stats.err
  /\ hist.source.stats.ret.newAdjectivesLearned > 0
  /\ lastOp.store.learningData # << >>
  /\ ReadsOf(lastOp.store) # hist.source

\* C3: addCustomAdjective never throws in a state reached by
\* addCustomAdjective, learnFromText, analyzePhoto, exportVocabulary and
\* importVocabulary of a snapshot that exportVocabulary returned, also for
\* a category that does not exist yet.
C3_AddNeverThrows ==
  (lastOp.op = "addCustomAdjective" /\ ~hist.tainted) => ~lastOp.err

\* C4: importVocabulary of null, of {} or of undefined throws at the call
\* and every read operation returns afterwards what it returned before.
C4_MalformedImportThrowsAndKeepsStore ==
  lastOp.op = "importMalformed" =>
    /\ lastOp.err
    /\ ReadsOf(Live) = ReadsOf(lastOp.store)

\* C5: a write into the object that exportVocabulary returned leaves every
\* read of the engine as it was, and an addCustomAdjective, learnFromText
\* or analyzePhoto on the engine leaves that object as it was.
C5_SnapshotSharesNothing ==
  /\ lastOp.op = "mutateExported" => ReadsOf(Live) = ReadsOf(lastOp.store)
  /\ (/\ lastOp.op \in {"addCustomAdjective", "learnFromText", "analyzePhoto"}
      /\ exported # 0)
       => Snapshot = lastOp.snapshot

\* The caller wrote into a snapshot of an engine that had learned, and the
\* engine learned again afterwards.
C5_Witness ==
  /\ lastOp.op \in {"addCustomAdjective", "learnFromText", "analyzePhoto"}
  /\ ~lastOp.err
  /\ exported # 0
  /\ ~hist.pristine
  /\ Get(Snapshot.categories, "mood") = <<"tampered">>
  /\ Snapshot.learningData # << >>
  /\ Live.learningData # Snapshot.learningData

MaxOf(options) == Opt(options, "maxAdjectives", DefaultMaxAdjectives)

\* C6: generateAdjectives returns at most max words, and every result of
\* analyzePhoto and of analyzePhotoBatch at most maxAdjectives adjectives.
C6_CapRespected ==
  /\ (lastOp.op = "generateAdjectives" /\ ~lastOp.err)
       => Len(lastOp.ret) <= lastOp.arg.max
  /\ (lastOp.op = "analyzePhoto" /\ ~lastOp.err)
       => Len(lastOp.ret.adjectives) <= MaxOf(lastOp.arg.options)
  /\ (lastOp.op = "analyzePhotoBatch" /\ ~lastOp.err)
       => \A i \in 1..Len(lastOp.ret) :
            Len(lastOp.ret[i].adjectives) <= MaxOf(lastOp.arg.options)

\* The cap cut the list: more words than max were at hand.
C6_Witness ==
  /\ lastOp.op = "generateAdjectives"
  /\ ~lastOp.err
  /\ lastOp.arg.max = 1
  /\ Len(lastOp.ret) = 1
  /\ lastOp.arg.existing # << >>
  /\ Live.learningData # << >>

\* The elements of s in order, each at its first occurrence only.
KeepFirst(s) ==
  LET first == {i \in 1..Len(s) : \A j \in 1..(i - 1) : s[j] # s[i]}
  IN [k \in 1..Cardinality(first) |->
        s[CHOOSE i \in first : Cardinality({j \in first : j < i}) = k - 1]]

Take(s, n) == [i \in 1..(IF n < Len(s) THEN n ELSE Len(s)) |-> s[i]]

IsPrefix(s, t) == Len(s) <= Len(t) /\ \A i \in 1..Len(s) : s[i] = t[i]

\* The words of the four parts of a generateAdjectives call, in order.
Thematic(call) == applySmartRules(call.photo)

Learned(call) ==
  IF call.options.useLearning
  THEN getLearnedAdjectives(Live, call.photo, call.options.preferFrequent)
  ELSE << >>

Filled(call) ==
  LET before == Thematic(call) \o Learned(call)
      after == CatalogFill(Live, Values(Live.categories), call.existing,
                           before,
                           [preferFrequent |-> call.options.preferFrequent,
                            draws |-> call.draws], 1)
  IN SubSeq(after, Len(before) + 1, Len(after))

\* C7: the result of generateAdjectives is the first max elements of the
\* list of the existing words, the thematic words, the learned words and
\* the catalog-fill words in this order, each word at its first occurrence;
\* so it has no word twice and starts with the existing words in their order.
C7_SelectComposition ==
  (lastOp.op = "generateAdjectives" /\ ~lastOp.err) =>
    /\ lastOp.ret =
         Take(KeepFirst(lastOp.arg.existing \o Thematic(lastOp.arg)
                          \o Learned(lastOp.arg) \o Filled(lastOp.arg)),
              lastOp.arg.max)
    /\ \A i, j \in 1..Len(lastOp.ret) : lastOp.ret[i] = lastOp.ret[j] => i = j
    /\ \/ IsPrefix(KeepFirst(lastOp.arg.existing), lastOp.ret)
       \/ IsPrefix(lastOp.ret, KeepFirst(lastOp.arg.existing))

\* All four parts gave words to the result, and an existing word came again
\* among the existing and among the thematic words.
C7_Witness ==
  /\ lastOp.op = "generateAdjectives"
  /\ ~lastOp.err
  /\ Len(KeepFirst(lastOp.arg.existing)) < Len(lastOp.arg.existing)
  /\ \E w \in {"warm"} : /\ Includes(lastOp.arg.existing, w)
                         /\ Includes(Thematic(lastOp.arg), w)
  /\ \E i \in 1..Len(lastOp.ret) : Includes(Learned(lastOp.arg), lastOp.ret[i])
  /\ \E i \in 1..Len(lastOp.ret) : Includes(Filled(lastOp.arg), lastOp.ret[i])
  /\ Len(lastOp.ret) = lastOp.arg.max

\* C8: analyzePhoto returns exactly maxAdjectives adjectives, 10 when the
\* option is not given, also for a photo without title, description, tags
\* and metadata on a new agent, and so does every result of a batch.
C8_ExactlyMaxAdjectives ==
  /\ (lastOp.op = "analyzePhoto" /\ ~lastOp.err)
       => Len(lastOp.ret.adjectives) = MaxOf(lastOp.arg.options)
  /\ (lastOp.op = "analyzePhotoBatch" /\ ~lastOp.err)
       => \A i \in 1..Len(lastOp.ret) :
            Len(lastOp.ret[i].adjectives) = MaxOf(lastOp.arg.options)

RECURSIVE OneAfterAnother(_, _, _, _)
\* await analyzePhoto(photo, options) for each photo in turn.
OneAfterAnother(voc, photos, options, draws) ==
  IF photos = << >> THEN Ok(voc, << >>)
  ELSE LET r == analyzePhoto(voc, Head(photos), options, draws)
           rest == OneAfterAnother(r.voc, Tail(photos), options, draws)
       IN [voc |-> rest.voc, err |-> r.err \/ rest.err,
           ret |-> <<r.ret>> \o rest.ret]

\* C9: analyzePhotoBatch returns one result per photo in input order, each
\* with the id of its photo, and leaves the vocabulary and gives the
\* adjectives that analyzePhoto gives when called for the photos one after
\* another in input order.
C9_BatchIsSequential ==
  (lastOp.op = "analyzePhotoBatch" /\ ~lastOp.err) =>
    LET photos == lastOp.arg.photos
        one == OneAfterAnother(lastOp.store, photos, lastOp.arg.options,
                               lastOp.arg.draws)
    IN /\ ~one.err
       /\ Len(lastOp.ret) = Len(photos)
       /\ \A i \in 1..Len(photos) :
            /\ lastOp.ret[i].photoId = photos[i].id
            /\ lastOp.ret[i].adjectives = one.ret[i].adjectives
       /\ Live = one.voc

\* A batch of two photos in which the first photo taught words that changed
\* the adjectives of the second.
C9_Witness ==
  /\ lastOp.op = "analyzePhotoBatch"
  /\ ~lastOp.err
  /\ Len(lastOp.arg.photos) = 2
  /\ Live # lastOp.store
  /\ lastOp.ret[2].adjectives
       # analyzePhoto(lastOp.store, lastOp.arg.photos[2], lastOp.arg.options,
                      lastOp.arg.draws).ret.adjectives

\* 5 + 1 for a title + 2 for a description + 1 for at least one tag + 1 for
\* a metadata map, at most 10: the confidence in tenths.
ConfidenceRule(photo) ==
  LET sum == 5 + (IF photo.title # "" THEN 1 ELSE 0)
               + (IF photo.description # "" THEN 2 ELSE 0)
               + (IF photo.hasTags /\ Len(photo.tags) >= 1 THEN 1 ELSE 0)
               + (IF photo.hasMetadata THEN 1 ELSE 0)
  IN IF sum > 10 THEN 10 ELSE sum

\* C10: the confidence of a result is ConfidenceRule of its photo, whatever
\* the options and the vocabulary.
C10_ConfidenceRule ==
  /\ (lastOp.op = "analyzePhoto" /\ ~lastOp.err)
       => lastOp.ret.confidence = ConfidenceRule(lastOp.arg.photo)
  /\ (lastOp.op = "analyzePhotoBatch" /\ ~lastOp.err)
       => \A i \in 1..Len(lastOp.ret) :
            lastOp.ret[i].confidence = ConfidenceRule(lastOp.arg.photos[i])

\* A photo with an empty tags array, analysed with options of its own by an
\* agent that has learned.
C10_Witness ==
  /\ lastOp.op = "analyzePhoto"
  /\ ~lastOp.err
  /\ lastOp.arg.photo.hasTags
  /\ lastOp.arg.photo.tags = << >>
  /\ lastOp.arg.options.given # {}
  /\ lastOp.ret.vocabularyStats.newAdjectivesLearned > 0
  /\ lastOp.ret.confidence = 7

\* The words counted in a vocabulary object.
Counted(voc) ==
  {voc.adjectiveFrequency[i].k : i \in 1..Len(voc.adjectiveFrequency)}

\* C11: across addCustomAdjective, learnFromText, analyzePhoto (which calls
\* learnFromPhoto), generateAdjectives, exportVocabulary and the read
\* operations, no word leaves the frequency table and no count goes down;
\* only importVocabulary may lower or reset a count.
C11_FrequencyNeverDecreases ==
  [][lastOp'.op # "importVocabulary"
       => \A w \in Counted(Live) :
            /\ w \in Counted(Live')
            /\ FrequencyOf(Live', w) >= FrequencyOf(Live, w)]_vars

C11_Witness ==
  /\ lastOp.op = "addCustomAdjective"
  /\ ~lastOp.err
  /\ lastOp.add.before >= 1
  /\ FrequencyOf(Live, trim(toLowerCase(lastOp.arg[1]))) = lastOp.add.before + 1

\* C12: detectCategory("serene", "title") returns "mood", in every state of
\* the vocabulary and on every call.
C12_SereneIsMood ==
  (lastOp.op = "detectCategory" /\ lastOp.arg = <<"serene", "title">>)
    => (~lastOp.err /\ lastOp.ret = "mood")

\* C13: learnFromText("This is a magnificent, extraordinary, and phenomenal
\* photograph", "description") returns a list that contains magnificent,
\* extraordinary and phenomenal, and none of the, is, a, and.
C13_LearnsTheThreeAdjectives ==
  (lastOp.op = "learnFromText" /\ lastOp.arg = TextInput /\ ~lastOp.err)
    => /\ \A w \in {"magnificent", "extraordinary", "phenomenal"} :
            Includes(lastOp.ret, w)
       /\ \A w \in {"the", "is", "a", "and"} : ~Includes(lastOp.ret, w)

\* The elements of a list.
Range(list) == {list[i] : i \in 1..Len(list)}

\* Every word a vocabulary object holds, in any of its four tables.
StoredWords(voc) ==
  UNION {Range(voc.categories[i].v) : i \in 1..Len(voc.categories)}
    \cup {voc.learningData[i].k : i \in 1..Len(voc.learningData)}
    \cup Counted(voc)
    \cup UNION {Range(voc.contextPatterns[i].v) :
                  i \in 1..Len(voc.contextPatterns)}

\* A word learnFromText must not learn: a function word, a generic
\* adjective, a word of at most two characters, or one with a character
\* that is neither a letter nor a hyphen.
NotLearnable(word) ==
  \/ word \in FunctionWords
  \/ word \in GenericWords
  \/ Len(word) <= 2
  \/ \E i \in 1..Len(word) :
       ~(IsLetter(CharAt(word, i)) \/ CharAt(word, i) = "-")

\* C14: no word that learnFromText returns, and no word that the call adds
\* to the vocabulary, is a function word, a generic adjective, at most two
\* characters long, or contains a character other than a letter or hyphen.
C14_LearnedWordsPassTheFilters ==
  lastOp.op = "learnFromText"
    => \A w \in Range(lastOp.ret)
                  \cup (StoredWords(Live) \ StoredWords(lastOp.store)) :
         ~NotLearnable(w)

\* The text held function words, generic words, a two-letter match and a
\* phrase match, and words were learned from it.
C14_Witness ==
  /\ lastOp.op = "learnFromText"
  /\ lastOp.arg[1] = "This may be the over-done or under-used older, lower and newest"
  /\ Includes(Concat(adjectivePatterns(lastOp.arg[1])), "may")
  /\ Includes(Concat(adjectivePatterns(lastOp.arg[1])), "under")
  /\ Includes(Concat(adjectivePatterns(lastOp.arg[1])), "lower and newest")
  /\ Includes(lastOp.ret, "over-done")
  /\ "newest" \in StoredWords(Live) \ StoredWords(lastOp.store)

\* The title or the description of the photo contains "night".
OfTheNight(photo) ==
  \/ StrIncludes(toLowerCase(photo.title), "night")
  \/ StrIncludes(toLowerCase(photo.description), "night")

\* C15: in every state of the vocabulary, generateAdjectives with no
\* existing words and max >= 10, for a photo whose title or description
\* contains "night", returns a list that contains mysterious, shadowy and
\* ethereal; so do two such calls made one after the other, whatever was
\* learned in between.
C15_NightWordsSelected ==
  (/\ lastOp.op = "generateAdjectives"
   /\ lastOp.arg.existing = << >>
   /\ lastOp.arg.max >= 10
   /\ OfTheNight(lastOp.arg.photo))
    => /\ ~lastOp.err
       /\ \A w \in {"mysterious", "shadowy", "ethereal"} :
            Includes(lastOp.ret, w)

\* The second of two photos of the night: the engine has learned "city"
\* from the title of the first, the sunset bundle comes first, and ethereal
\* is the tenth word of ten.
C15_Witness ==
  /\ lastOp.op = "generateAdjectives"
  /\ lastOp.arg.existing = << >>
  /\ lastOp.arg.max = 10
  /\ lastOp.arg.photo = PhotoDusk
  /\ HasKey(Live.learningData, "city")
  /\ Len(lastOp.ret) = 10
  /\ lastOp.ret[10] = "ethereal"

C17_UnknownCategoryIsEmpty ==
  (/\ lastOp.op = "getAdjectivesByCategory"
   /\ ~HasKey(lastOp.store.categories, lastOp.arg))
    => /\ ~lastOp.err
       /\ lastOp.ret = << >>
       /\ Outcome(getAllCategories(Live))
            = Outcome(getAllCategories(lastOp.store))
       /\ Outcome(getVocabularyStats(Live))
            = Outcome(getVocabularyStats(lastOp.store))

\* C18: the snapshot exportVocabulary returns carries the set of category
\* names created by learning, and after importVocabulary of that snapshot
\* the set of the importing vocabulary is the set the snapshot carries.
C18_SnapshotCarriesCustomCategories ==
  /\ (lastOp.op = "exportVocabulary" /\ Live.shape = "object")
       => Snapshot.customCategories.names = Live.customCategories.names
  /\ (lastOp.op = "importVocabulary" /\ ~lastOp.err /\ Live.shape = "object"
        /\ Snapshot.shape = "object" /\ hist.pristine)
       => Live.customCategories.names = Snapshot.customCategories.names

RECURSIVE Replay(_, _)
\* The vocabulary of a new engine after HistoryWord was learned under the
\* contexts of a history, in order.
Replay(voc, contexts) ==
  IF contexts = << >> THEN voc
  ELSE Replay(addAdjective(voc, HistoryWord, "mood", Head(contexts)).voc,
              Tail(contexts))

\* The number of contexts a word is recorded under.
ContextsOf(voc, word) ==
  Cardinality({i \in 1..Len(voc.contextPatterns) :
                 Includes(voc.contextPatterns[i].v, word)})

ConfidenceOf(voc, word) == Get(voc.learningData, word).confidence

\* The histories of as many events and with the same last context as the
\* history the engine went through, with one distinct context less.
NarrowerHistories ==
  {h \in [1..FrequencyOf(Live, HistoryWord) -> HistoryContexts] :
     /\ h[Len(h)] = lastOp.arg[3]
     /\ Cardinality(Range(h)) = ContextsOf(Live, HistoryWord) - 1}

\* C19: of two histories of learning one word, with the same number of
\* events and the same context in the last event, the one with N distinct
\* contexts ends with a confidence of the word that is not lower than that
\* of the one with N - 1 distinct contexts.
C19_ConfidenceGrowsWithContexts ==
  lastOp.op = "addCustomAdjective"
    => \A h \in NarrowerHistories :
         ConfidenceOf(Live, HistoryWord)
           >= ConfidenceOf(Replay(NewVocabulary, h), HistoryWord)

\* Three events or more under two contexts, and a history under one context
\* that ends lower.
C19_Witness ==
  /\ lastOp.op = "addCustomAdjective"
  /\ FrequencyOf(Live, HistoryWord) >= 3
  /\ ContextsOf(Live, HistoryWord) = 2
  /\ \E h \in NarrowerHistories :
       ConfidenceOf(Live, HistoryWord)
         > ConfidenceOf(Replay(NewVocabulary, h), HistoryWord)

\* The first category of a vocabulary whose word list contains the word,
\* descriptive when there is none.
CategoryOfWord(voc, word) ==
  LET holding == {i \in 1..Len(voc.categories) :
                    Includes(voc.categories[i].v, word)}
  IN IF holding = {} THEN "descriptive"
     ELSE voc.categories[CHOOSE i \in holding : \A j \in holding : i <= j].k

\* C20: when includeCategories is set, every adjective of an analyzePhoto
\* result is listed in the categories map of the result exactly once, under
\* the first category of the vocabulary whose word list contains it, or
\* under descriptive when no category contains it.
C20_CategoriesFollowTheVocabulary ==
  (/\ lastOp.op = "analyzePhoto"
   /\ ~lastOp.err
   /\ Opt(lastOp.arg.options, "includeCategories", TRUE))
    => \A w \in Range(lastOp.ret.adjectives) :
         \A i \in 1..Len(lastOp.ret.categories) :
           Occurrences(lastOp.ret.categories[i].v, w)
             = IF lastOp.ret.categories[i].k = CategoryOfWord(Live, w)
               THEN 1 ELSE 0

\* The words that have a learning record in a vocabulary object.
Recorded(voc) == {voc.learningData[i].k : i \in 1..Len(voc.learningData)}

\* C21: in every state reached from a new engine by addCustomAdjective,
\* learnFromText and analyzePhoto (which calls learnFromPhoto), the learning
\* record of every word holds as its frequency the count of the word in the
\* frequency table.
C21_RecordFrequencyInSync ==
  \A w \in Recorded(Live) :
    Get(Live.learningData, w).frequency = FrequencyOf(Live, w)

\* A word was learned twice: its record and the table both say so.
C21_Witness ==
  \E w \in Recorded(Live) :
    /\ Get(Live.learningData, w).frequency >= 2
    /\ FrequencyOf(Live, w) >= 2

\* C22: after every addCustomAdjective(w, c, ctx), the learning record of w
\* holds the confidence min(1, 0.5 + 0.1 * k + min(0.3, 0.05 * f) + b), in
\* hundredths, where k is the number of contexts whose pattern list contains
\* w after the call, f is the frequency of that record, and b is 0.1 for
\* the contexts title and description and 0 for the others.
C22_ConfidenceFromCurrentCounts ==
  (lastOp.op = "addCustomAdjective" /\ ~lastOp.err)
    => LET w == trim(toLowerCase(lastOp.arg[1]))
           k == ContextsOf(Live, w)
           f == Get(Live.learningData, w).frequency
           b == IF lastOp.arg[3] \in {"title", "description"} THEN 10 ELSE 0
       IN ConfidenceOf(Live, w) = Min(100, 50 + 10 * k + Min(30, 5 * f) + b)

\* C23: one learnFromText call records each word at most once: the list it
\* returns has no word twice, and the count of every returned word is one
\* higher than before the call, however often the word occurs in the text.
C23_EachWordLearnedOnce ==
  (lastOp.op = "learnFromText" /\ ~lastOp.err)
    => /\ \A i, j \in 1..Len(lastOp.ret) :
            lastOp.ret[i] = lastOp.ret[j] => i = j
       /\ \A w \in Range(lastOp.ret) :
            FrequencyOf(Live, w) = FrequencyOf(lastOp.store, w) + 1

\* C25: for a text "X and Y" or "X or Y" whose words X and Y pass
\* isValidAdjective and are not generic words, learnFromText returns both X
\* and Y as words of their own, also when neither has one of the suffixes
\* or a hyphen.
C25_BothSidesOfAPairLearned ==
  \A x, y \in {"calm", "quiet"}, joint \in {" and ", " or "} :
    (/\ lastOp.op = "learnFromText"
     /\ lastOp.arg[1] = x \o joint \o y
     /\ ~lastOp.err
     /\ isValidAdjective(x) /\ ~isCommonWord(x)
     /\ isValidAdjective(y) /\ ~isCommonWord(y))
      => Includes(lastOp.ret, x) /\ Includes(lastOp.ret, y)

\* A marker occurs in the title, in the description or in a tag of the photo.
Marked(photo, markers) ==
  \E marker \in markers :
    \/ StrIncludes(toLowerCase(photo.title), marker)
    \/ StrIncludes(toLowerCase(photo.description), marker)
    \/ \E i \in 1..Len(LowerTags(photo)) :
         StrIncludes(LowerTags(photo)[i], marker)

\* The bundles of the five themes whose markers occur in the photo, in the
\* order of the themes.
BundlesOf(photo) ==
  (IF Marked(photo, {"sunset", "sunrise"})
   THEN <<"golden", "warm", "radiant", "glowing", "fiery", "amber", "crimson">>
   ELSE << >>)
  \o (IF Marked(photo, {"night", "dark"})
      THEN <<"mysterious", "shadowy", "ethereal", "nocturnal", "twilight",
             "starry", "moonlit">>
      ELSE << >>)
  \o (IF Marked(photo, {"nature", "forest", "mountain"})
      THEN <<"natural", "organic", "wild", "untamed", "pristine", "rustic",
             "earthy">>
      ELSE << >>)
  \o (IF Marked(photo, {"city", "urban", "street"})
      THEN <<"urban", "metropolitan", "cosmopolitan", "bustling", "dynamic",
             "modern", "architectural">>
      ELSE << >>)
  \o (IF Marked(photo, {"water", "ocean", "river", "lake"})
      THEN <<"flowing", "fluid", "reflective", "crystalline", "aquatic",
             "marine", "rippling">>
      ELSE << >>)

\* C24: in generateAdjectives each of the five themes contributes its word
\* bundle whenever one of its markers occurs in the title, the description
\* or the tags of the photo, and the bundles of all matching themes come in
\* the order of the themes: with no existing words they are the first words
\* of the result, as far as max allows.
C24_EveryThemeScansAllFields ==
  (/\ lastOp.op = "generateAdjectives"
   /\ ~lastOp.err
   /\ lastOp.arg.existing = << >>)
    => IsPrefix(Take(KeepFirst(BundlesOf(lastOp.arg.photo)), lastOp.arg.max),
                lastOp.ret)

\* The pattern lists of the contexts title, description and tag, in the
\* order of contextPatterns, each taken when the photo has a title, a
\* description, at least one tag.
RECURSIVE ListsForContent(_, _)
ListsForContent(entries, photo) ==
  IF entries = << >> THEN << >>
  ELSE LET e == Head(entries)
           has == \/ e.k = "title" /\ photo.title # ""
                  \/ e.k = "description" /\ photo.description # ""
                  \/ e.k = "tag" /\ photo.hasTags /\ photo.tags # << >>
       IN (IF has THEN e.v ELSE << >>)
            \o ListsForContent(Tail(entries), photo)

\* The learned words of a call by the rule of C26: the five of the highest
\* count when frequent words are preferred, the first five otherwise.
LearnedForContent(call) ==
  LET candidates == ListsForContent(Live.contextPatterns, call.photo)
  IN IF ~call.options.useLearning THEN << >>
     ELSE IF call.options.preferFrequent
     THEN Take(SortByFrequency(Live, candidates, << >>), 5)
     ELSE Take(candidates, 5)

\* C26: with useLearning the learned words of generateAdjectives are at most
\* five words of the pattern lists of the contexts title, description and
\* tag, a list being used only when the photo has a title, a description,
\* at least one tag; with preferFrequent they are the five of the highest
\* count, counts not increasing, otherwise the first five as stored; the
\* result is the thematic words, these learned words and the catalog fill
\* after them, each word once, cut at max.
C26_LearnedWordsFollowPhotoContent ==
  (/\ lastOp.op = "generateAdjectives"
   /\ ~lastOp.err
   /\ lastOp.arg.existing = << >>)
    => LET before == Thematic(lastOp.arg) \o LearnedForContent(lastOp.arg)
       IN lastOp.ret =
            Take(KeepFirst(
                   CatalogFill(Live, Values(Live.categories), << >>, before,
                               [preferFrequent |->
                                  lastOp.arg.options.preferFrequent,
                                draws |-> lastOp.arg.draws], 1)),
                 lastOp.arg.max)

\* The members of a category list that the catalog fill may take.
Eligible(list, existing, generated) ==
  SelectSeq(list, LAMBDA w : ~Includes(existing, w) /\ ~Includes(generated, w))

\* The first member of a non-empty list that no member exceeds in count.
FirstOfHighestCount(list) ==
  list[CHOOSE i \in 1..Len(list) :
         /\ \A j \in 1..Len(list) :
              FrequencyOf(Live, list[j]) <= FrequencyOf(Live, list[i])
         /\ \A j \in 1..(i - 1) :
              FrequencyOf(Live, list[j]) < FrequencyOf(Live, list[i])]

RECURSIVE FillFollowsRule(_, _, _, _)
\* rest is what the catalog fill gives by the rule of C27 for the category
\* lists still to come: one eligible word of each list that has one, the
\* first of the highest count when frequent words are preferred.
FillFollowsRule(lists, call, generated, rest) ==
  IF lists = << >> THEN rest = << >>
  ELSE LET eligible == Eligible(Head(lists), call.existing, generated)
       IN IF eligible = << >>
          THEN FillFollowsRule(Tail(lists), call, generated, rest)
          ELSE /\ rest # << >>
               /\ Includes(eligible, Head(rest))
               /\ call.options.preferFrequent
                    => Head(rest) = FirstOfHighestCount(eligible)
               /\ FillFollowsRule(Tail(lists), call,
                                  Append(generated, Head(rest)), Tail(rest))

\* C27: in the catalog fill of generateAdjectives every category gives
\* exactly one word when it has a member that is neither among the existing
\* words nor in the result so far, and none otherwise; with preferFrequent
\* the word is the eligible member of the highest count, the first in the
\* list among equal counts, so the result does not depend on Math.random().
C27_CatalogFillOnePerCategory ==
  (/\ lastOp.op = "generateAdjectives"
   /\ ~lastOp.err
   /\ Len(lastOp.ret) < lastOp.arg.max)
    => LET call == lastOp.arg
           before == Thematic(call) \o Learned(call)
           kept == KeepFirst(call.existing \o before)
       IN /\ IsPrefix(kept, lastOp.ret)
          /\ FillFollowsRule(Values(Live.categories), call, before,
                             SubSeq(lastOp.ret, Len(kept) + 1,
                                    Len(lastOp.ret)))
          /\ call.options.preferFrequent
               => \A draws \in DrawStreams :
                    generateAdjectives(Live, call.photo, call.existing,
                                       call.max, call.options, draws).ret
                      = lastOp.ret

\* A category gave its second word, which is counted higher than its first.
C27_Witness ==
  /\ lastOp.op = "generateAdjectives"
  /\ lastOp.arg.options.preferFrequent
  /\ Len(lastOp.ret) < lastOp.arg.max
  /\ \E i \in 1..Len(Live.categories) :
       /\ Len(Live.categories[i].v) >= 2
       /\ Includes(lastOp.ret, Live.categories[i].v[2])
       /\ ~Includes(lastOp.ret, Live.categories[i].v[1])
       /\ FrequencyOf(Live, Live.categories[i].v[2])
            > FrequencyOf(Live, Live.categories[i].v[1])

\* The calls that only read the vocabulary.
ReadingOps ==
  {"getVocabularyStats", "getAllCategories", "getAdjectivesByCategory",
   "getMostFrequentAdjectives", "exportVocabulary", "generateAdjectives"}

\* C28: in every state reached from a new engine without importVocabulary,
\* every word of a category list is a seed word of that category or a word
\* that was added, so that it has a learning record and a count of at least
\* 1; and no read, generateAdjectives or exportVocabulary call adds a word
\* or a category.
C28_NoWordWithoutAnAdd ==
  /\ \A i \in 1..Len(Live.categories) :
       \A w \in Range(Live.categories[i].v) :
         \/ /\ HasKey(SeedCategories, Live.categories[i].k)
            /\ Includes(Get(SeedCategories, Live.categories[i].k), w)
         \/ /\ w \in Recorded(Live)
            /\ FrequencyOf(Live, w) >= 1
  /\ lastOp.op \in ReadingOps => Live.categories = lastOp.store.categories

\* A category that does not exist was looked up on an engine that has put a
\* learned word into a seed category.
C28_Witness ==
  /\ lastOp.op = "getAdjectivesByCategory"
  /\ lastOp.arg = "unknown"
  /\ Includes(Get(Live.categories, "mood"), "phenomenal")
  /\ ~Includes(Get(SeedCategories, "mood"), "phenomenal")

\* C29: getVocabularyStats, getAllCategories, getAdjectivesByCategory,
\* getMostFrequentAdjectives, exportVocabulary and generateAdjectives, and
\* analyzePhoto with learnFromInput false, leave every part of the
\* vocabulary as it was: the category lists and their order, the learning
\* records, the custom category names, the frequency table and the context
\* patterns.
C29_ReadsLeaveTheVocabulary ==
  (\/ lastOp.op \in ReadingOps
   \/ /\ lastOp.op = "analyzePhoto"
      /\ "learnFromInput" \in lastOp.arg.options.given
      /\ ~lastOp.arg.options.learnFromInput)
    => /\ ~lastOp.err
       /\ Live = lastOp.store

\* A photo with a title, a description and tags was analyzed without
\* learning, on an engine that had learned before.
C29_Witness ==
  /\ lastOp.op = "analyzePhoto"
  /\ ~lastOp.arg.options.learnFromInput
  /\ lastOp.arg.photo = PhotoSunset
  /\ Live.learningData # << >>
  /\ Len(lastOp.ret.adjectives) >= 2

\* The words of all context pattern lists of a vocabulary object.
Patterned(voc) ==
  UNION {Range(voc.contextPatterns[i].v) : i \in 1..Len(voc.contextPatterns)}

====
